---- MODULE Spec2Model ----
(***************************************************************************)
(* State-machine model of chain/app/evm/evm.go (EVMApp): the dual-ledger   *)
(* block executor, the commit coordinator, the admission controller and    *)
(* the receipt ledger.                                                     *)
(*                                                                         *)
(* A state root is modelled as an injective digest of the account table,   *)
(* a StateDB handle as the account table plus its undo journal.            *)
(***************************************************************************)
EXTENDS Integers, Sequences, FiniteSets, TLC

\* ------------------------------------------------------------------ bounds
MaxBlockLen == 2
MaxHeight == 2
MaxFaults == 1

\* ------------------------------------------------------- universe of inputs
Senders == {"a1"}
Recipient == "a2"
\* common.Address{}: the all-zero address (nil coinbase, failed sender recovery)
ZeroAddr == "zero"
Accounts == Senders \cup {Recipient, ZeroAddr}

\* balance every sender account holds in the genesis allocation
GenesisAlloc == [a \in Accounts |-> IF a \in Senders THEN 2 ELSE 0]

\* gas a plain transfer is charged (gas limit = gas used in this model)
TxGas == 1
GasUsedOf(tx) == TxGas

\* The transactions the transport layer and the consensus engine may hand in.
\* sigOK = FALSE: sender recovery fails for this transaction.
Txs ==
    {[from |-> "a1", nonce |-> 0, value |-> 1, gasPrice |-> 0, protected |-> FALSE, sigOK |-> TRUE],
     [from |-> "a1", nonce |-> 1, value |-> 1, gasPrice |-> 0, protected |-> FALSE, sigOK |-> TRUE],
     [from |-> "a1", nonce |-> 0, value |-> 2, gasPrice |-> 1, protected |-> FALSE, sigOK |-> TRUE],
     [from |-> "a1", nonce |-> 0, value |-> 1, gasPrice |-> 0, protected |-> FALSE, sigOK |-> FALSE],
     [from |-> "a1", nonce |-> 0, value |-> 1, gasPrice |-> 0, protected |-> TRUE, sigOK |-> TRUE],
     [from |-> "a1", nonce |-> 1, value |-> 1, gasPrice |-> 0, protected |-> TRUE, sigOK |-> TRUE]}

Malformed == [malformed |-> TRUE]

Blocks == UNION {[1..n -> Txs] : n \in 0..MaxBlockLen}

\* ------------------------------------------------------------ world state
NilState == [nil |-> TRUE]
NoBlock == [none |-> TRUE]
NoError == "ok"

EmptyAccounts == [a \in Accounts |-> [nonce |-> 0, balance |-> 0]]
GenesisAccounts == [a \in Accounts |-> [nonce |-> 0, balance |-> GenesisAlloc[a]]]

\* root digest of an account table
RootOf(accts) == <<"root", accts>>
EmptyTrieRoot == RootOf(EmptyAccounts)

\* estate.New(root, db): a fresh handle with an empty journal
StateNew(root) == [accts |-> root[2], journal |-> <<>>]

GetNonce(sdb, a) == sdb.accts[a].nonce
GetBalance(sdb, a) == sdb.accts[a].balance

SetNonce(sdb, a, n) ==
    [accts |-> [sdb.accts EXCEPT ![a].nonce = n],
     journal |-> Append(sdb.journal, <<a, sdb.accts[a]>>)]

SetBalance(sdb, a, b) ==
    [accts |-> [sdb.accts EXCEPT ![a].balance = b],
     journal |-> Append(sdb.journal, <<a, sdb.accts[a]>>)]

Snapshot(sdb) == Len(sdb.journal)

RECURSIVE RevertToSnapshot(_, _)
RevertToSnapshot(sdb, id) ==
    IF Len(sdb.journal) <= id THEN sdb
    ELSE LET e == sdb.journal[Len(sdb.journal)]
         IN RevertToSnapshot(
                [accts |-> [sdb.accts EXCEPT ![e[1]] = e[2]],
                 journal |-> SubSeq(sdb.journal, 1, Len(sdb.journal) - 1)],
                id)

\* StateDB.Commit: the root of the accumulated state
CommitRoot(sdb) == RootOf(sdb.accts)

\* ------------------------------------------------------------ transactions
\* signer.Sender(tx): the recovered address, the zero address when recovery fails
Sender(tx) == IF tx.sigOK THEN tx.from ELSE ZeroAddr

\* tx.Cost(): value + gasPrice * gasLimit
Cost(tx) == tx.value + tx.gasPrice * TxGas

\* tx.Hash()
TxHash(tx) == <<"txhash", tx>>

\* rlp.EncodeToBytes(tx)
EncodeTx(tx, data) == <<"rlp", tx, data>>

\* core.ApplyTransaction on the target ledger: nonce check, gas purchase, nonce
\* bump, value transfer, fee to the (nil) coinbase. A failure after the gas
\* purchase leaves the ledger dirty; only the caller's revert cleans it.
ApplyTransaction(sdb, tx) ==
    LET from == Sender(tx)
        fee == tx.gasPrice * TxGas
    IN  IF GetNonce(sdb, from) # tx.nonce
        THEN [err |-> "nonce mismatch", state |-> sdb, receipt |-> <<>>]
        ELSE IF GetBalance(sdb, from) < fee
        THEN [err |-> "insufficient balance for gas", state |-> sdb, receipt |-> <<>>]
        ELSE LET s1 == SetBalance(sdb, from, GetBalance(sdb, from) - fee)
                 s2 == SetNonce(s1, from, GetNonce(s1, from) + 1)
             IN  IF GetBalance(s2, from) < tx.value
                 THEN [err |-> "insufficient balance for transfer", state |-> s2,
                       receipt |-> <<>>]
                 ELSE LET s3 == SetBalance(s2, from, GetBalance(s2, from) - tx.value)
                          s4 == SetBalance(s3, Recipient, GetBalance(s3, Recipient) + tx.value)
                          s5 == SetBalance(s4, ZeroAddr, GetBalance(s4, ZeroAddr) + fee)
                      IN  [err |-> NoError, state |-> s5,
                           receipt |-> <<[TxHash |-> TxHash(tx), Status |-> 1,
                                          GasUsed |-> GasUsedOf(tx)]>>]

\* makePublicPayloadHashReceipt charging the gas of an executed transfer
makePublicPayloadHashReceipt_GasCharged(tx) ==
    [TxHash |-> TxHash(tx), Status |-> 1, GasUsed |-> GasUsedOf(tx)]

\* EVMApp.makePublicPayloadHashReceipt: the synthetic receipt of a protected
\* transaction that this node does not execute
makePublicPayloadHashReceipt(tx) == [TxHash |-> TxHash(tx), Status |-> 1, GasUsed |-> 0]

\* execFunc with the public nonce mirror of the private path left out
execFunc_NoMirror(pub, priv, tx, secChan) ==
    LET from == Sender(tx)
    IN  IF tx.protected /\ ~secChan
        THEN [err |-> NoError,
              pub |-> SetNonce(pub, from, GetNonce(pub, from) + 1),
              priv |-> SetNonce(priv, from, GetNonce(priv, from) + 1),
              temPublicReceipt |-> <<makePublicPayloadHashReceipt(tx)>>,
              temPrivateReceipt |-> <<>>]
        ELSE IF tx.protected
        THEN LET r == ApplyTransaction(priv, tx)
             IN  [err |-> r.err, pub |-> pub, priv |-> r.state,
                  temPublicReceipt |-> <<>>,
                  temPrivateReceipt |-> r.receipt]
        ELSE LET priv1 == SetNonce(priv, from, GetNonce(priv, from) + 1)
                 r == ApplyTransaction(pub, tx)
             IN  [err |-> r.err, pub |-> r.state, priv |-> priv1,
                  temPublicReceipt |-> r.receipt,
                  temPrivateReceipt |-> <<>>]

\* execFunc with an unprotected transaction applied to the private ledger too
execFunc_PrivTouched(pub, priv, tx, secChan) ==
    LET from == Sender(tx)
    IN  IF tx.protected /\ ~secChan
        THEN [err |-> NoError,
              pub |-> SetNonce(pub, from, GetNonce(pub, from) + 1),
              priv |-> SetNonce(priv, from, GetNonce(priv, from) + 1),
              temPublicReceipt |-> <<makePublicPayloadHashReceipt(tx)>>,
              temPrivateReceipt |-> <<>>]
        ELSE IF tx.protected
        THEN LET pub1 == SetNonce(pub, from, GetNonce(pub, from) + 1)
                 r == ApplyTransaction(priv, tx)
             IN  [err |-> r.err, pub |-> pub1, priv |-> r.state,
                  temPublicReceipt |-> <<>>,
                  temPrivateReceipt |-> r.receipt]
        ELSE LET r == ApplyTransaction(pub, tx)
             IN  [err |-> r.err, pub |-> r.state, priv |-> ApplyTransaction(priv, tx).state,
                  temPublicReceipt |-> r.receipt,
                  temPrivateReceipt |-> <<>>]

\* genExecFun.execFunc: one transaction against the pair of in-progress ledgers.
\* Result: the error, both ledgers and the two temporary receipt lists.
execFunc(pub, priv, tx, secChan) ==
    LET from == Sender(tx)
    IN  IF tx.protected /\ ~secChan
        THEN [err |-> NoError,
              pub |-> SetNonce(pub, from, GetNonce(pub, from) + 1),
              priv |-> SetNonce(priv, from, GetNonce(priv, from) + 1),
              temPublicReceipt |-> <<makePublicPayloadHashReceipt(tx)>>,
              temPrivateReceipt |-> <<>>]
        ELSE IF tx.protected
        THEN LET pub1 == SetNonce(pub, from, GetNonce(pub, from) + 1)
                 r == ApplyTransaction(priv, tx)
             IN  [err |-> r.err, pub |-> pub1, priv |-> r.state,
                  temPublicReceipt |-> <<>>,
                  temPrivateReceipt |-> r.receipt]
        ELSE LET priv1 == SetNonce(priv, from, GetNonce(priv, from) + 1)
                 r == ApplyTransaction(pub, tx)
             IN  [err |-> r.err, pub |-> r.state, priv |-> priv1,
                  temPublicReceipt |-> r.receipt,
                  temPrivateReceipt |-> <<>>]

\* endFunc with the revert of the private ledger left out
endFunc_NoPrivRevert(raw, x, pubSnap, privSnap, acc) ==
    IF x.err # NoError
    THEN [pub |-> RevertToSnapshot(x.pub, pubSnap),
          priv |-> x.priv,
          publicReceipts |-> acc.publicReceipts,
          privateReceipts |-> acc.privateReceipts,
          ValidTxs |-> acc.ValidTxs,
          InvalidTxs |-> Append(acc.InvalidTxs, [Bytes |-> raw, Error |-> x.err]),
          cont |-> TRUE]
    ELSE [pub |-> x.pub,
          priv |-> x.priv,
          publicReceipts |-> acc.publicReceipts \o x.temPublicReceipt,
          privateReceipts |-> acc.privateReceipts \o x.temPrivateReceipt,
          ValidTxs |-> Append(acc.ValidTxs, raw),
          InvalidTxs |-> acc.InvalidTxs,
          cont |-> TRUE]

\* endFunc putting the receipts of a valid transaction in front of the
\* accumulated ones
endFunc_PrependReceipts(raw, x, pubSnap, privSnap, acc) ==
    IF x.err # NoError
    THEN [pub |-> RevertToSnapshot(x.pub, pubSnap),
          priv |-> RevertToSnapshot(x.priv, privSnap),
          publicReceipts |-> acc.publicReceipts,
          privateReceipts |-> acc.privateReceipts,
          ValidTxs |-> acc.ValidTxs,
          InvalidTxs |-> Append(acc.InvalidTxs, [Bytes |-> raw, Error |-> x.err]),
          cont |-> TRUE]
    ELSE [pub |-> x.pub,
          priv |-> x.priv,
          publicReceipts |-> x.temPublicReceipt \o acc.publicReceipts,
          privateReceipts |-> x.temPrivateReceipt \o acc.privateReceipts,
          ValidTxs |-> Append(acc.ValidTxs, raw),
          InvalidTxs |-> acc.InvalidTxs,
          cont |-> TRUE]

\* endFunc telling the dispatcher to quit after a failed transaction
endFunc_QuitOnError(raw, x, pubSnap, privSnap, acc) ==
    IF x.err # NoError
    THEN [pub |-> RevertToSnapshot(x.pub, pubSnap),
          priv |-> RevertToSnapshot(x.priv, privSnap),
          publicReceipts |-> acc.publicReceipts,
          privateReceipts |-> acc.privateReceipts,
          ValidTxs |-> acc.ValidTxs,
          InvalidTxs |-> Append(acc.InvalidTxs, [Bytes |-> raw, Error |-> x.err]),
          cont |-> FALSE]
    ELSE [pub |-> x.pub,
          priv |-> x.priv,
          publicReceipts |-> acc.publicReceipts \o x.temPublicReceipt,
          privateReceipts |-> acc.privateReceipts \o x.temPrivateReceipt,
          ValidTxs |-> Append(acc.ValidTxs, raw),
          InvalidTxs |-> acc.InvalidTxs,
          cont |-> TRUE]

\* genExecFun.endFunc: revert both ledgers and drop the temporary receipts on an
\* error, publish the receipts and the verdict otherwise.
\* x: the execFunc result; pubSnap, privSnap: the snapshot markers taken by the
\* begin function; acc: the app's accumulators and the ExecuteResult so far;
\* cont: the returned flag, TRUE to go on with the next transaction.
endFunc(raw, x, pubSnap, privSnap, acc) ==
    IF x.err # NoError
    THEN [pub |-> RevertToSnapshot(x.pub, pubSnap),
          priv |-> RevertToSnapshot(x.priv, privSnap),
          publicReceipts |-> acc.publicReceipts,
          privateReceipts |-> acc.privateReceipts,
          ValidTxs |-> acc.ValidTxs,
          InvalidTxs |-> Append(acc.InvalidTxs, [Bytes |-> raw, Error |-> x.err]),
          cont |-> TRUE]
    ELSE [pub |-> x.pub,
          priv |-> x.priv,
          publicReceipts |-> acc.publicReceipts \o x.temPublicReceipt,
          privateReceipts |-> acc.privateReceipts \o x.temPrivateReceipt,
          ValidTxs |-> Append(acc.ValidTxs, raw),
          InvalidTxs |-> acc.InvalidTxs,
          cont |-> TRUE]

\* ---------------------------------------------------------------- receipts
\* rlp.EncodeToBytes((*ReceiptForStorage)(receipt))
EncodeReceipt(r) == <<"rlp", r.Status, r.GasUsed, r.TxHash>>

EncodeAll(rs) == [i \in 1..Len(rs) |-> EncodeReceipt(rs[i])]

ReceiptsPrefix == "receipts-"
ReceiptKey(h) == <<ReceiptsPrefix, h>>

\* merkle.SimpleHashFromHashes: binary tree, left half of size (n+1) \div 2
RECURSIVE SimpleHashFromHashes(_)
SimpleHashFromHashes(hs) ==
    IF Len(hs) = 0 THEN <<>>
    ELSE IF Len(hs) = 1 THEN hs[1]
    ELSE LET k == (Len(hs) + 1) \div 2
         IN  <<"node", SimpleHashFromHashes(SubSeq(hs, 1, k)),
               SimpleHashFromHashes(SubSeq(hs, k + 1, Len(hs)))>>

\* receiptBatch.Put for a list of receipts: later puts overwrite earlier ones
RECURSIVE BatchPut(_, _)
BatchPut(db, rs) ==
    IF Len(rs) = 0 THEN db
    ELSE LET k == ReceiptKey(rs[1].TxHash)
         IN  BatchPut({e \in db : e.key # k} \cup {[key |-> k, val |-> EncodeReceipt(rs[1])]},
                      Tail(rs))

\* EVMApp.SaveReceipts: the batch to persist and the receipts root
SaveReceipts(db, pubRs, privRs) ==
    [db |-> BatchPut(BatchPut(db, pubRs), privRs),
     rHash |-> SimpleHashFromHashes(EncodeAll(pubRs))]

\* -------------------------------------------------------------------- state
VARIABLES
    secChanHost,          \* TRUE iff private_server_host is configured
    phase,                \* "new" | "idle" | "executing" | "executed" | "commitFailed"
    lastBlock,            \* the persisted LastBlockInfo, NoBlock before genesis
    publicState,          \* confirmed public handle
    privateState,         \* confirmed private handle
    currentPublicState,   \* in-progress public handle
    currentPrivateState,  \* in-progress private handle
    currentHeader,        \* height of the synthetic header, 0 when nil
    publicReceipts,       \* app.publicReceipts
    privateReceipts,      \* app.privateReceipts
    receiptDb,            \* persisted receipt index: set of [key, val]
    block,                \* transactions of the block being executed
    height,               \* height of the block being executed
    recov,                \* sender recovery per position: "pending" | "done"
    txIndex,              \* next position of the block to dispatch
    res,                  \* the ExecuteResult being built
    step,                 \* record of the last dispatched transaction
    ret,                  \* record of the last hook return
    chk,                  \* the CheckTx call in flight and its result
    faults,               \* store failures injected so far
    startReceipts,        \* the accumulators as OnExecute found them
    qres,                 \* the last Query call and its Result
    genesis               \* the account table of core.DefaultGenesis()

vars == <<secChanHost, phase, lastBlock, publicState, privateState,
          currentPublicState, currentPrivateState, currentHeader,
          publicReceipts, privateReceipts, receiptDb, block, height, recov,
          txIndex, res, step, ret, chk, faults, startReceipts, qres, genesis>>

confirmedVars == <<lastBlock, publicState, privateState>>
currentVars == <<currentPublicState, currentPrivateState, currentHeader>>
receiptVars == <<publicReceipts, privateReceipts, receiptDb>>
execVars == <<block, height, recov, txIndex, res, step, startReceipts>>

NoStep == [idx |-> 0]
NoRet == [op |-> "none"]
ChkIdle == [pc |-> "idle"]
EmptyRes == [ValidTxs |-> <<>>, InvalidTxs |-> <<>>]
NoReceipts == [publicReceipts |-> <<>>, privateReceipts |-> <<>>]
NoQuery == [op |-> "none"]

\* NewEVMApp: nothing loaded yet
InitApp ==
    /\ secChanHost \in BOOLEAN
    /\ phase = "new"
    /\ lastBlock = NoBlock
    /\ publicState = NilState
    /\ privateState = NilState
    /\ currentPublicState = NilState
    /\ currentPrivateState = NilState
    /\ currentHeader = 0
    /\ publicReceipts = <<>>
    /\ privateReceipts = <<>>
    /\ receiptDb = {}
    /\ block = <<>>
    /\ height = 0
    /\ recov = <<>>
    /\ txIndex = 0
    /\ res = EmptyRes
    /\ step = NoStep
    /\ ret = NoRet
    /\ chk = ChkIdle
    /\ faults = 0
    /\ startReceipts = NoReceipts
    /\ qres = NoQuery

\* a node whose genesis allocation funds the senders
Init == InitApp /\ genesis = GenesisAccounts

\* EVMApp.getLastAppHash: the two roots of the persisted LastBlockInfo,
\* EmptyTrieRoot where the record holds none
getLastAppHash(lb) ==
    IF lb = NoBlock THEN [pubHash |-> EmptyTrieRoot, privHash |-> EmptyTrieRoot]
    ELSE [pubHash |-> lb.AppHash, privHash |-> lb.PrivHash]

\* EVMApp.writeGenesis: the LastBlockInfo after it ran
writeGenesis(lb) ==
    LET h == getLastAppHash(lb)
    IN  IF h.pubHash # EmptyTrieRoot /\ h.privHash # EmptyTrieRoot
        THEN lb
        ELSE [Height |-> 0, AppHash |-> RootOf(genesis),
              PrivHash |-> RootOf(genesis)]

\* app.LoadLastBlock: the persisted record, none when the load fails
LoadLastBlock(lb, loadOK) == IF loadOK THEN lb ELSE NoBlock

\* EVMApp.Start. genesisLoadOK, startLoadOK: LoadLastBlock succeeds inside
\* writeGenesis and inside Start itself; both ignore the load error and go on
\* with the empty record.
Start(genesisLoadOK, startLoadOK) ==
    /\ phase = "new"
    /\ (~genesisLoadOK \/ ~startLoadOK) => faults < MaxFaults
    /\ faults' = IF genesisLoadOK /\ startLoadOK THEN faults ELSE faults + 1
    /\ lastBlock' =
           IF writeGenesis(LoadLastBlock(lastBlock, genesisLoadOK)) =
                  LoadLastBlock(lastBlock, genesisLoadOK)
           THEN lastBlock
           ELSE writeGenesis(LoadLastBlock(lastBlock, genesisLoadOK))
    /\ publicState' =
           StateNew(getLastAppHash(LoadLastBlock(lastBlock', startLoadOK)).pubHash)
    /\ privateState' =
           StateNew(getLastAppHash(LoadLastBlock(lastBlock', startLoadOK)).privHash)
    /\ phase' = "idle"
    /\ UNCHANGED <<secChanHost, genesis, currentVars, receiptVars, execVars, ret, chk, qres>>

\* The process stops and a new EVMApp is constructed over the same stores:
\* LastBlockInfo and the receipt index persist, the fields of the app do not.
Restart ==
    /\ phase # "new"
    /\ phase' = "new"
    /\ publicState' = NilState
    /\ privateState' = NilState
    /\ currentPublicState' = NilState
    /\ currentPrivateState' = NilState
    /\ currentHeader' = 0
    /\ publicReceipts' = <<>>
    /\ privateReceipts' = <<>>
    /\ block' = <<>>
    /\ height' = 0
    /\ recov' = <<>>
    /\ txIndex' = 0
    /\ res' = EmptyRes
    /\ step' = NoStep
    /\ ret' = NoRet
    /\ chk' = ChkIdle
    /\ qres' = NoQuery
    /\ startReceipts' = NoReceipts
    /\ UNCHANGED <<secChanHost, genesis, lastBlock, receiptDb, faults>>

\* EVMApp.OnExecute up to the call of the parallel verifier: both in-progress
\* ledgers are opened at the persisted roots; failAt = 1, 2: estate.New fails.
OnExecuteBegin(b, failAt) ==
    /\ phase \in {"idle", "commitFailed"}
    /\ lastBlock.Height < MaxHeight
    /\ failAt # 0 => faults < MaxFaults
    /\ faults' = IF failAt # 0 THEN faults + 1 ELSE faults
    /\ LET h == getLastAppHash(lastBlock)
       IN  /\ currentPublicState' = IF failAt = 1 THEN NilState ELSE StateNew(h.pubHash)
           /\ currentPrivateState' =
                 IF failAt = 1 THEN currentPrivateState
                 ELSE IF failAt = 2 THEN NilState ELSE StateNew(h.privHash)
    /\ IF failAt # 0
       THEN /\ phase' = "idle"
            /\ ret' = [op |-> "OnExecute", err |-> "create StateDB failed"]
            /\ UNCHANGED <<currentHeader, execVars>>
       ELSE /\ phase' = "executing"
            /\ currentHeader' = lastBlock.Height + 1
            /\ height' = lastBlock.Height + 1
            /\ block' = b
            /\ recov' = [i \in 1..Len(b) |-> "pending"]
            /\ txIndex' = 1
            /\ res' = EmptyRes
            /\ step' = NoStep
            /\ ret' = NoRet
            /\ startReceipts' = [publicReceipts |-> publicReceipts,
                                 privateReceipts |-> privateReceipts]
    /\ UNCHANGED <<secChanHost, genesis, confirmedVars, receiptVars, chk, qres>>

\* exeWithCPUParallelVeirfy, the concurrent part: the sender of position i is
\* recovered; recoveries complete in any order.
Recover(i) ==
    /\ phase = "executing"
    /\ i \in 1..Len(block)
    /\ recov[i] = "pending"
    /\ recov' = [recov EXCEPT ![i] = "done"]
    /\ UNCHANGED <<secChanHost, genesis, phase, confirmedVars, currentVars, receiptVars,
                   block, height, txIndex, res, step, ret, chk, faults, startReceipts, qres>>

\* The position the sequential dispatcher consumes next
NextToDispatch == txIndex

\* exeWithCPUParallelVeirfy, the sequential part, for one transaction: the begin
\* function takes both snapshots, the verified transaction is executed (a failed
\* recovery counts as a failed execution), the end function settles it and
\* tells whether to go on.
Dispatch ==
    /\ phase = "executing"
    /\ txIndex <= Len(block)
    /\ LET i == NextToDispatch
           tx == block[i]
           pubSnap == Snapshot(currentPublicState)
           privSnap == Snapshot(currentPrivateState)
           x == IF tx.sigOK
                THEN execFunc(currentPublicState, currentPrivateState, tx, secChanHost)
                ELSE [err |-> "invalid signature", pub |-> currentPublicState,
                      priv |-> currentPrivateState,
                      temPublicReceipt |-> <<>>, temPrivateReceipt |-> <<>>]
           e == endFunc(tx, x, pubSnap, privSnap,
                        [publicReceipts |-> publicReceipts,
                         privateReceipts |-> privateReceipts,
                         ValidTxs |-> res.ValidTxs, InvalidTxs |-> res.InvalidTxs])
       IN  /\ i \in 1..Len(block)
           /\ recov[i] = "done"
           /\ currentPublicState' = e.pub
           /\ currentPrivateState' = e.priv
           /\ publicReceipts' = e.publicReceipts
           /\ privateReceipts' = e.privateReceipts
           /\ res' = [ValidTxs |-> e.ValidTxs, InvalidTxs |-> e.InvalidTxs]
           /\ step' = [idx |-> i, tx |-> tx, err |-> x.err,
                       prePub |-> currentPublicState, prePriv |-> currentPrivateState,
                       prePublicReceipts |-> publicReceipts,
                       prePrivateReceipts |-> privateReceipts]
           /\ txIndex' = IF e.cont THEN txIndex + 1 ELSE Len(block) + 1
    /\ UNCHANGED <<secChanHost, genesis, phase, confirmedVars, currentHeader, receiptDb,
                   block, height, recov, ret, chk, faults, startReceipts, qres>>

\* EVMApp.OnExecute returns the ExecuteResult
OnExecuteEnd ==
    /\ phase = "executing"
    /\ txIndex = Len(block) + 1
    /\ phase' = "executed"
    /\ ret' = [op |-> "OnExecute", err |-> NoError, res |-> res]
    /\ UNCHANGED <<secChanHost, genesis, confirmedVars, currentVars, receiptVars, execVars,
                   chk, faults, qres>>

\* Steps of OnCommit at which the store may fail:
\* 1, 2: StateDB.Commit (public, private); 3, 4: TrieDB().Commit (public,
\* private); 5, 6: estate.New of the new confirmed handle (public, private).
CommitFailPoints == 1..6

\* StateDB.Commit(true) leaves the handle with its journal flushed
Committed(sdb) == [accts |-> sdb.accts, journal |-> <<>>]

\* NewPublicState with the handle swapped before the trie nodes are persisted
NewPublicState_SwapBeforePersist(failAt, old, appHash) ==
    IF failAt \in 1..2 THEN old
    ELSE IF failAt = 5 THEN NilState ELSE StateNew(appHash)

\* The confirmed public handle OnCommit leaves behind
NewPublicState(failAt, old, appHash) ==
    IF failAt \in 1..4 THEN old
    ELSE IF failAt = 5 THEN NilState ELSE StateNew(appHash)

\* The confirmed private handle OnCommit leaves behind
NewPrivateState(failAt, old, privHash) ==
    IF failAt \in 1..5 THEN old
    ELSE IF failAt = 6 THEN NilState ELSE StateNew(privHash)

\* EVMApp.OnCommit. failAt = 0: no store failure; saveFail: the receipt batch
\* cannot be written.
OnCommit(failAt, saveFail) ==
    /\ phase = "executed"
    /\ (failAt # 0 \/ saveFail) => faults < MaxFaults
    /\ failAt # 0 => ~saveFail
    /\ faults' = IF failAt # 0 \/ saveFail THEN faults + 1 ELSE faults
    /\ LET appHash == CommitRoot(currentPublicState)
           privHash == CommitRoot(currentPrivateState)
           saved == SaveReceipts(receiptDb, publicReceipts, privateReceipts)
           pre == [pub |-> publicState, priv |-> privateState, lb |-> lastBlock]
       IN  /\ currentPublicState' =
                 IF failAt = 1 THEN currentPublicState ELSE Committed(currentPublicState)
           /\ currentPrivateState' =
                 IF failAt \in {1, 2} THEN currentPrivateState
                 ELSE Committed(currentPrivateState)
           /\ publicState' = NewPublicState(failAt, publicState, appHash)
           /\ privateState' = NewPrivateState(failAt, privateState, privHash)
           /\ IF failAt # 0
              THEN /\ phase' = "commitFailed"
                   /\ ret' = [op |-> "OnCommit", err |-> "store failure", failAt |-> failAt,
                              height |-> height, pre |-> pre,
                              appHash |-> appHash, privHash |-> privHash]
                   /\ UNCHANGED <<lastBlock, receiptVars>>
              ELSE /\ phase' = "idle"
                   /\ lastBlock' = [Height |-> height, AppHash |-> appHash,
                                    PrivHash |-> privHash]
                   /\ receiptDb' = IF saveFail THEN receiptDb ELSE saved.db
                   /\ publicReceipts' = <<>>
                   /\ privateReceipts' = <<>>
                   /\ ret' = [op |-> "OnCommit", err |-> NoError, failAt |-> 0,
                              height |-> height, pre |-> pre,
                              appHash |-> appHash, privHash |-> privHash,
                              AppHash |-> appHash,
                              ReceiptsHash |-> IF saveFail THEN <<>> ELSE saved.rHash,
                              saveFailed |-> saveFail,
                              publicReceipts |-> publicReceipts,
                              privateReceipts |-> privateReceipts]
    /\ UNCHANGED <<secChanHost, genesis, currentHeader, execVars, chk, qres>>

\* CheckTxClassify without the rejection of a protected transaction on a node
\* that has no secure channel
CheckTxClassify_NoChannelPass(bs, payloadOK, sendOK, secChan, pub, priv) ==
    IF bs = Malformed
    THEN [pc |-> "done", bs |-> bs, err |-> "decode error", bytes |-> <<>>,
          sent |-> FALSE, locked |-> FALSE]
    ELSE IF bs.protected /\ ~payloadOK
    THEN [pc |-> "done", bs |-> bs, err |-> "payload decode error", bytes |-> <<>>,
          sent |-> FALSE, locked |-> FALSE, judgeState |-> priv,
          payloadOK |-> FALSE, sendOK |-> FALSE]
    ELSE IF bs.protected /\ secChan /\ ~sendOK
    THEN [pc |-> "done", bs |-> bs, err |-> "send payload failed", bytes |-> <<>>,
          sent |-> TRUE, locked |-> FALSE, judgeState |-> priv,
          payloadOK |-> TRUE, sendOK |-> FALSE]
    ELSE [pc |-> "read", bs |-> bs, sent |-> bs.protected /\ secChan,
          judgeState |-> IF bs.protected THEN priv ELSE pub,
          payloadOK |-> TRUE, sendOK |-> TRUE]

\* EVMApp.CheckTx up to the acquisition of stateMtx: decoding, classification,
\* the secure-channel round trip and the unlocked read of the confirmed handle
\* (pub, priv: the confirmed handles at that moment).
\* payloadOK: the ReplacePayload decodes; sendOK: commu.SendPayload succeeds.
CheckTxClassify(bs, payloadOK, sendOK, secChan, pub, priv) ==
    IF bs = Malformed
    THEN [pc |-> "done", bs |-> bs, err |-> "decode error", bytes |-> <<>>,
          sent |-> FALSE, locked |-> FALSE]
    ELSE IF bs.protected /\ ~payloadOK
    THEN [pc |-> "done", bs |-> bs, err |-> "payload decode error", bytes |-> <<>>,
          sent |-> FALSE, locked |-> FALSE, judgeState |-> priv,
          payloadOK |-> FALSE, sendOK |-> FALSE]
    ELSE IF bs.protected /\ ~secChan
    THEN [pc |-> "done", bs |-> bs, err |-> "node private tx unsupported",
          bytes |-> <<>>, sent |-> FALSE, locked |-> FALSE, judgeState |-> priv,
          payloadOK |-> TRUE, sendOK |-> FALSE]
    ELSE IF bs.protected /\ ~sendOK
    THEN [pc |-> "done", bs |-> bs, err |-> "send payload failed", bytes |-> <<>>,
          sent |-> TRUE, locked |-> FALSE, judgeState |-> priv,
          payloadOK |-> TRUE, sendOK |-> FALSE]
    ELSE [pc |-> "read", bs |-> bs, sent |-> bs.protected,
          judgeState |-> IF bs.protected THEN priv ELSE pub,
          payloadOK |-> TRUE, sendOK |-> TRUE]

CheckTxBegin(bs, payloadOK, sendOK) ==
    /\ phase # "new"
    /\ chk.pc \in {"idle", "done"}
    /\ chk' = CheckTxClassify(bs, payloadOK, sendOK, secChanHost, publicState, privateState)
    /\ UNCHANGED <<secChanHost, genesis, phase, confirmedVars, currentVars, receiptVars,
                   execVars, ret, faults, qres>>

\* CheckVerdict without the funds check
CheckVerdict_NoFundsCheck(judgeState, tx) ==
    IF judgeState = NilState THEN "panic: nil StateDB"
    ELSE IF GetNonce(judgeState, Sender(tx)) > tx.nonce THEN "nonce too low"
    ELSE NoError

\* The verdict of the locked part of CheckTx on the handle it holds
CheckVerdict(judgeState, tx) ==
    IF judgeState = NilState THEN "panic: nil StateDB"
    ELSE IF GetNonce(judgeState, Sender(tx)) > tx.nonce THEN "nonce too low"
    ELSE IF GetBalance(judgeState, Sender(tx)) < Cost(tx) THEN "not enough funds"
    ELSE NoError

\* EVMApp.CheckTx under stateMtx: nonce and balance checks on the handle read
\* before the lock was taken, then re-encoding.
CheckTxEnd ==
    /\ chk.pc = "read"
    /\ LET v == CheckVerdict(chk.judgeState, chk.bs)
       IN  chk' = [pc |-> "done", bs |-> chk.bs, err |-> v,
                   bytes |-> IF v = NoError
                             THEN EncodeTx(chk.bs, IF chk.bs.protected THEN "payloadHash"
                                                   ELSE "data")
                             ELSE <<>>,
                   sent |-> chk.sent, locked |-> TRUE,
                   judgeState |-> chk.judgeState,
                   payloadOK |-> chk.payloadOK, sendOK |-> chk.sendOK,
                   confirmed |-> IF chk.bs.protected THEN privateState ELSE publicState]
    /\ UNCHANGED <<secChanHost, genesis, phase, confirmedVars, currentVars, receiptVars,
                   execVars, ret, faults, qres>>

\* ------------------------------------------------------------------ queries
\* tx.To() of a contract creation: a nil pointer
NilAddr == "nil"

\* a transaction without recipient, as a query may carry one
CreationTx ==
    [from |-> "a1", nonce |-> 0, value |-> 0, gasPrice |-> 0, protected |-> FALSE,
     sigOK |-> TRUE, create |-> TRUE]

To(tx) == IF "create" \in DOMAIN tx THEN NilAddr ELSE Recipient

\* the transactions a query payload may decode to
QueryTxs ==
    {t \in Txs : t.nonce = 0 /\ t.gasPrice = 0} \cup {CreationTx}

\* the zero-length query
EmptyQuery == <<>>

\* app.core.GetBlockMeta as the engine may answer it: an error, a header
\* without AppHash, the header carrying the last committed AppHash
BlockMetas == {"error", "noAppHash", "lastAppHash"}

\* The byte strings handed to Query: the action tag and the decoded payload.
\* short: the payload is shorter than the 8 height bytes; h: the height
\* suffix; meta, newOK: what GetBlockMeta and estate.New answer; empty: the
\* payload is empty; coreOK: app.core.Query succeeds.
Queries ==
    {EmptyQuery}
    \cup {[action |-> "Contract", load |-> l] : l \in QueryTxs \cup {Malformed}}
    \cup {[action |-> "ContractByHeight", short |-> TRUE]}
    \cup {[action |-> "ContractByHeight", short |-> FALSE, load |-> l, h |-> 0,
           meta |-> "error", newOK |-> FALSE] :
             l \in {t \in QueryTxs : ~t.protected /\ t.sigOK} \cup {Malformed}}
    \cup {[action |-> "ContractByHeight", short |-> FALSE, load |-> l, h |-> 1,
           meta |-> m, newOK |-> n] :
             l \in {t \in QueryTxs : ~t.protected /\ t.sigOK /\ t # CreationTx},
             m \in BlockMetas, n \in BOOLEAN}
    \cup {[action |-> "Nonce", addr |-> a] : a \in Senders \cup {Recipient, "short"}}
    \cup {[action |-> "Receipt", hash |-> TxHash(t)] : t \in QueryTxs \ {CreationTx}}
    \cup {[action |-> "Existence", load |-> l] : l \in QueryTxs \cup {Malformed}}
    \cup {[action |-> a, empty |-> TRUE, coreOK |-> FALSE] : a \in {"PayLoad", "TxRaw"}}
    \cup {[action |-> a, empty |-> FALSE, coreOK |-> c] :
             a \in {"PayLoad", "TxRaw"}, c \in BOOLEAN}
    \cup {[action |-> "Unknown"]}

\* gtypes.Result values; a Go panic aborts the process
NewResultOK(data, log) == [Code |-> "OK", Data |-> data, Log |-> log]
NewError(code, log) == [Code |-> code, Data |-> <<>>, Log |-> log]
Panic(what) == [Code |-> "panic", Data |-> <<>>, Log |-> what]

\* rlp.EncodeToBytes(nonce) and its inverse
EncodeNonce(n) == <<"rlp", n>>
DecodeNonce(data) == data[2]

\* StateDB.Copy: an independent handle on the same contents
Copy(sdb) == [accts |-> sdb.accts, journal |-> <<>>]

\* core.ApplyMessage for a message built with checkNonce = false: gas purchase,
\* nonce bump, value transfer when the balance allows it, fee to the coinbase.
\* No contract code exists in this model: the returned data is empty.
ApplyMessage(sdb, tx) ==
    LET from == Sender(tx)
        fee == tx.gasPrice * TxGas
    IN  IF GetBalance(sdb, from) < fee
        THEN [err |-> "insufficient balance for gas", state |-> sdb, ret |-> <<>>]
        ELSE LET s1 == SetBalance(sdb, from, GetBalance(sdb, from) - fee)
                 s2 == SetNonce(s1, from, GetNonce(s1, from) + 1)
                 s3 == IF GetBalance(s2, from) < tx.value THEN s2
                       ELSE IF To(tx) = NilAddr
                       THEN SetBalance(s2, from, GetBalance(s2, from) - tx.value)
                       ELSE LET d == SetBalance(s2, from, GetBalance(s2, from) - tx.value)
                            IN  SetBalance(d, To(tx), GetBalance(d, To(tx)) + tx.value)
                 s4 == SetBalance(s3, ZeroAddr, GetBalance(s3, ZeroAddr) + fee)
             IN  [err |-> NoError, state |-> s4, ret |-> <<>>]

\* The fields of the app a query works on
App ==
    [publicState |-> publicState, privateState |-> privateState,
     currentPublicState |-> currentPublicState,
     currentPrivateState |-> currentPrivateState,
     currentHeader |-> currentHeader, lastBlock |-> lastBlock,
     receiptDb |-> receiptDb]

\* The outcome of a query handler: the Result, the app as the handler leaves
\* it, and the ledger contents the handler read (<<>> when it read none)
Outcome(r, app, read) == [res |-> r, app |-> app, read |-> read]

\* EVMApp.queryNonce
queryNonce(addrBytes, app) ==
    IF addrBytes = "short"
    THEN Outcome(NewError("BaseInvalidInput", "Invalid address"), app, <<>>)
    ELSE IF app.publicState = NilState
    THEN Outcome(Panic("nil StateDB"), app, <<>>)
    ELSE Outcome(NewResultOK(EncodeNonce(GetNonce(app.publicState, addrBytes)), ""),
                 app, app.publicState.accts)

\* EVMApp.queryReceipt
queryReceipt(txHashBytes, app) ==
    LET key == ReceiptKey(txHashBytes)
        hit == {e \in app.receiptDb : e.key = key}
    IN  IF hit = {}
        THEN Outcome(NewError("InternalError", "fail to get receipt for tx"), app, <<>>)
        ELSE Outcome(NewResultOK((CHOOSE e \in hit : TRUE).val, ""), app, <<>>)

\* EVMApp.queryContractExistence: no account of this model holds code, so the
\* code hash never equals the transaction's data
queryContractExistence(load, app) ==
    IF load = Malformed
    THEN Outcome(NewError("BaseInvalidInput", "decode error"), app, <<>>)
    ELSE LET judge == IF load.protected THEN app.privateState ELSE app.publicState
         IN  IF To(load) = NilAddr
             THEN Outcome(Panic("nil recipient"), app, <<>>)
             ELSE IF judge = NilState
             THEN Outcome(Panic("nil StateDB"), app, <<>>)
             ELSE Outcome(NewResultOK(<<"0x00">>, "constract doesn't exist"), app, judge.accts)

\* queryContract with the current-height call run on the confirmed handle
queryContract_OnConfirmed(load, h, meta, newOK, app) ==
    IF load = Malformed
    THEN Outcome(NewError("BaseInvalidInput", "decode error"), app, <<>>)
    ELSE IF ~load.sigOK
    THEN Outcome(NewError("BaseInvalidInput", "invalid signature"), app, <<>>)
    ELSE IF h = 0
    THEN LET cur == IF load.protected THEN app.privateState ELSE app.publicState
         IN  IF app.currentHeader = 0
             THEN Outcome(Panic("nil header"), app, <<>>)
             ELSE IF cur = NilState
             THEN Outcome(Panic("nil StateDB"), app, <<>>)
             ELSE LET m == ApplyMessage(cur, load)
                  IN  Outcome(NewResultOK(m.ret, ""),
                              IF load.protected
                              THEN [app EXCEPT !.privateState = m.state]
                              ELSE [app EXCEPT !.publicState = m.state],
                              cur.accts)
    ELSE IF meta = "error"
    THEN Outcome(NewError("BaseInvalidInput", "no block meta"), app, <<>>)
    ELSE IF ~newOK
    THEN Outcome(NewError("BaseInvalidInput", "create StateDB failed"), app, <<>>)
    ELSE LET trieRoot == IF meta = "noAppHash" THEN EmptyTrieRoot
                         ELSE getLastAppHash(app.lastBlock).pubHash
             evmState == StateNew(trieRoot)
             m == ApplyMessage(evmState, load)
         IN  Outcome(NewResultOK(m.ret, ""), app, evmState.accts)

\* EVMApp.queryContract. h = 0: the call runs on a copy of the in-progress
\* handle selected by the protected flag, under the synthetic current header;
\* otherwise on a fresh handle opened at the AppHash of the block meta.
queryContract(load, h, meta, newOK, app) ==
    IF load = Malformed
    THEN Outcome(NewError("BaseInvalidInput", "decode error"), app, <<>>)
    ELSE IF ~load.sigOK
    THEN Outcome(NewError("BaseInvalidInput", "invalid signature"), app, <<>>)
    ELSE IF h = 0
    THEN LET cur == IF load.protected THEN app.currentPrivateState
                    ELSE app.currentPublicState
         IN  IF app.currentHeader = 0
             THEN Outcome(Panic("nil header"), app, <<>>)
             ELSE IF cur = NilState
             THEN Outcome(Panic("nil StateDB"), app, <<>>)
             ELSE LET m == ApplyMessage(Copy(cur), load)
                  IN  Outcome(NewResultOK(m.ret, ""), app, cur.accts)
    ELSE IF meta = "error"
    THEN Outcome(NewError("BaseInvalidInput", "no block meta"), app, <<>>)
    ELSE IF ~newOK
    THEN Outcome(NewError("BaseInvalidInput", "create StateDB failed"), app, <<>>)
    ELSE LET trieRoot == IF meta = "noAppHash" THEN EmptyTrieRoot
                         ELSE getLastAppHash(app.lastBlock).pubHash
             evmState == StateNew(trieRoot)
             m == ApplyMessage(evmState, load)
         IN  Outcome(NewResultOK(m.ret, ""), app, evmState.accts)

\* EVMApp.queryPayLoad and EVMApp.queryTransaction: forwarded to the engine
queryCore(empty, coreOK, app) ==
    IF empty THEN Outcome(NewError("BaseInvalidInput", "Empty query"), app, <<>>)
    ELSE IF ~coreOK THEN Outcome(NewError("InternalError", "core error"), app, <<>>)
    ELSE Outcome(NewResultOK(<<"core">>, ""), app, <<>>)

\* EVMApp.Query: the first byte selects the handler
Query(query, app) ==
    IF query = EmptyQuery THEN Outcome(Panic("index out of range"), app, <<>>)
    ELSE IF query.action = "Contract"
    THEN queryContract(query.load, 0, "error", FALSE, app)
    ELSE IF query.action = "ContractByHeight"
    THEN IF query.short
         THEN Outcome(NewError("BaseInvalidInput", "wrong height"), app, <<>>)
         ELSE queryContract(query.load, query.h, query.meta, query.newOK, app)
    ELSE IF query.action = "Nonce" THEN queryNonce(query.addr, app)
    ELSE IF query.action = "Receipt" THEN queryReceipt(query.hash, app)
    ELSE IF query.action = "Existence" THEN queryContractExistence(query.load, app)
    ELSE IF query.action \in {"PayLoad", "TxRaw"}
    THEN queryCore(query.empty, query.coreOK, app)
    ELSE Outcome(NewError("BaseInvalidInput", "unimplemented query"), app, <<>>)

\* A caller runs one Query against the started app; qres keeps the query, its
\* Result, the ledger contents it read, the phase of the block cycle and, for a
\* contract call, the confirmed handle of the ledger the call selects.
QueryCall(q) ==
    /\ phase # "new"
    /\ LET o == Query(q, App)
       IN  /\ qres' = [op |-> "Query", query |-> q, res |-> o.res, read |-> o.read,
                       phase |-> phase,
                       confirmed |->
                           IF q # EmptyQuery /\ q.action \in {"Contract", "ContractByHeight"}
                              /\ "load" \in DOMAIN q /\ q.load # Malformed
                           THEN IF q.load.protected THEN privateState ELSE publicState
                           ELSE NilState]
           /\ publicState' = o.app.publicState
           /\ privateState' = o.app.privateState
           /\ currentPublicState' = o.app.currentPublicState
           /\ currentPrivateState' = o.app.currentPrivateState
           /\ currentHeader' = o.app.currentHeader
           /\ lastBlock' = o.app.lastBlock
           /\ receiptDb' = o.app.receiptDb
    /\ UNCHANGED <<secChanHost, genesis, phase, publicReceipts, privateReceipts, execVars,
                   ret, chk, faults>>

\* The consensus engine drives the hooks one at a time; the store may fail.
Next ==
    \/ Start(TRUE, TRUE)
    \/ \E b \in Blocks, f \in 0..2 : OnExecuteBegin(b, f)
    \/ \E i \in 1..MaxBlockLen : Recover(i)
    \/ Dispatch
    \/ OnExecuteEnd
    \/ \E f \in {0} \cup CommitFailPoints, sf \in BOOLEAN : OnCommit(f, sf)

Spec == Init /\ [][Next]_vars

\* The transport layer calls CheckTx concurrently with the hooks (store
\* failures are left to Spec).
NextAdmission ==
    \/ Start(TRUE, TRUE)
    \/ \E b \in Blocks : OnExecuteBegin(b, 0)
    \/ \E i \in 1..MaxBlockLen : Recover(i)
    \/ Dispatch
    \/ OnExecuteEnd
    \/ OnCommit(0, FALSE)
    \/ \E bs \in Txs \cup {Malformed}, p \in BOOLEAN, s \in BOOLEAN : CheckTxBegin(bs, p, s)
    \/ CheckTxEnd

SpecAdmission == Init /\ [][NextAdmission]_vars

\* the blocks the engine proposes while clients are observed
QueryBlocks == UNION {[1..n -> Txs] : n \in 0..(MaxBlockLen - 1)}

\* Clients run Query and CheckTx concurrently with the hooks (store failures
\* are left to Spec). chk and qres are records of client calls that no hook
\* reads; a behaviour here observes client calls of one kind, Query or CheckTx.
NextQuery ==
    \/ Start(TRUE, TRUE)
    \/ \E b \in QueryBlocks : OnExecuteBegin(b, 0)
    \/ \E i \in 1..MaxBlockLen : Recover(i)
    \/ Dispatch
    \/ OnExecuteEnd
    \/ OnCommit(0, FALSE)
    \/ chk = ChkIdle /\ \E q \in Queries : QueryCall(q)
    \/ qres = NoQuery /\ \E bs \in Txs \cup {Malformed}, p \in BOOLEAN, s \in BOOLEAN :
                             CheckTxBegin(bs, p, s)
    \/ CheckTxEnd

SpecQuery == Init /\ [][NextQuery]_vars

\* a node whose genesis allocation is the funded one or the empty one
InitRestart == InitApp /\ genesis \in {GenesisAccounts, EmptyAccounts}

\* The node is stopped and started again between the hooks; a load of
\* LastBlockInfo may fail at start.
NextRestart ==
    \/ \E g \in BOOLEAN, l \in BOOLEAN : Start(g, l)
    \/ \E b \in Blocks : OnExecuteBegin(b, 0)
    \/ \E i \in 1..MaxBlockLen : Recover(i)
    \/ Dispatch
    \/ OnExecuteEnd
    \/ OnCommit(0, FALSE)
    \/ Restart

SpecRestart == InitRestart /\ [][NextRestart]_vars

\* ================================================================== claims

\* The last dispatched transaction has just been settled by its end function
StepSettled ==
    /\ step.idx # 0
    /\ phase \in {"executing", "executed"}

\* C1: after the end-of-transaction step of a transaction whose execution
\* returned an error, both in-progress ledgers equal their values at the
\* snapshot taken before it (the nonce bump on the non-executing ledger undone),
\* the transaction has added no receipt to either accumulator, and the raw
\* transaction is the newest entry of InvalidTxs, with its error.
C1_FailedTxFullyReverted ==
    (StepSettled /\ step.err # NoError) =>
        /\ currentPublicState = step.prePub
        /\ currentPrivateState = step.prePriv
        /\ publicReceipts = step.prePublicReceipts
        /\ privateReceipts = step.prePrivateReceipts
        /\ Len(res.InvalidTxs) > 0
        /\ res.InvalidTxs[Len(res.InvalidTxs)] = [Bytes |-> step.tx, Error |-> step.err]

\* an unprotected transaction failed after the EVM had dirtied the public
\* ledger and the private nonce had been bumped
C1_Witness ==
    /\ StepSettled
    /\ step.err = "insufficient balance for transfer"
    /\ ~step.tx.protected
    /\ step.idx = 2

C5_UnprotectedTxPrivateFrame ==
    (StepSettled /\ step.err = NoError /\ ~step.tx.protected) =>
        /\ currentPrivateState.accts =
              [step.prePriv.accts EXCEPT ![Sender(step.tx)].nonce = @ + 1]
        /\ privateReceipts = step.prePrivateReceipts

\* a valid unprotected transfer moved value on the public ledger
C5_Witness ==
    /\ StepSettled
    /\ step.err = NoError
    /\ ~step.tx.protected
    /\ GetBalance(currentPublicState, Recipient) > GetBalance(step.prePub, Recipient)
    /\ Len(publicReceipts) = Len(step.prePublicReceipts) + 1

\* the elements of s at the positions 1..n that m marks
RECURSIVE MaskSel(_, _, _)
MaskSel(s, m, n) ==
    IF n = 0 THEN <<>>
    ELSE IF m[n] THEN Append(MaskSel(s, m, n - 1), s[n])
    ELSE MaskSel(s, m, n - 1)

InvalidBytes == [i \in 1..Len(res.InvalidTxs) |-> res.InvalidTxs[i].Bytes]

\* C10: OnExecute dispatches the block in order and to its end: the settled
\* prefix of the block is split between ValidTxs and InvalidTxs, every position
\* in exactly one of them, both in block order, and OnExecute returns only once
\* every position is settled. A failed transaction does not end the loop.
C10_EveryTxSettledInOrder ==
    phase \in {"executing", "executed"} =>
        /\ phase = "executed" =>
              (Len(res.ValidTxs) + Len(res.InvalidTxs) = Len(block) /\ ret.res = res)
        /\ txIndex <= Len(block) =>
              Len(res.ValidTxs) + Len(res.InvalidTxs) = txIndex - 1
        /\ LET n == Len(res.ValidTxs) + Len(res.InvalidTxs)
           IN  /\ n <= Len(block)
               /\ \E m \in [1..n -> BOOLEAN] :
                     /\ res.ValidTxs = MaskSel(block, m, n)
                     /\ InvalidBytes = MaskSel(block, [i \in 1..n |-> ~m[i]], n)

\* the first transaction of a block failed and the second was still executed
C10_Witness ==
    /\ phase = "executed"
    /\ Len(block) = 2
    /\ Len(res.InvalidTxs) = 1
    /\ res.InvalidTxs[1].Bytes = block[1]
    /\ res.ValidTxs = <<block[2]>>

\* The last hook return is that of an OnCommit
CommitReturned == ret.op = "OnCommit"

\* C2: after OnCommit returns, whether or not a store operation failed, either
\* both confirmed handles are rooted at this block's new roots and LastBlockInfo
\* holds {height, new public root, new private root}, or both handles and
\* LastBlockInfo are exactly as before the call.
C2_CommitAllOrNothing ==
    CommitReturned =>
        \/ /\ publicState = StateNew(ret.appHash)
           /\ privateState = StateNew(ret.privHash)
           /\ lastBlock = [Height |-> ret.height, AppHash |-> ret.appHash,
                           PrivHash |-> ret.privHash]
        \/ /\ publicState = ret.pre.pub
           /\ privateState = ret.pre.priv
           /\ lastBlock = ret.pre.lb

\* C3: the receipts root OnCommit returns is the Merkle root over the
\* serialized public receipts of the block followed by its serialized private
\* receipts, each in block order.
C3_ReceiptsRootCoversBothLedgers ==
    (CommitReturned /\ ret.err = NoError /\ ~ret.saveFailed) =>
        ret.ReceiptsHash =
            SimpleHashFromHashes(EncodeAll(ret.publicReceipts)
                                 \o EncodeAll(ret.privateReceipts))

\* C6: when StateDB.Commit or TrieDB().Commit fails for either ledger, OnCommit
\* returns the error and the confirmed public handle, the confirmed private
\* handle and the persisted LastBlockInfo are as before the call.
C6_FailureBeforeSwapKeepsConfirmed ==
    (CommitReturned /\ ret.failAt \in 1..4) =>
        /\ ret.err # NoError
        /\ publicState = ret.pre.pub
        /\ privateState = ret.pre.priv
        /\ lastBlock = ret.pre.lb

\* persisting the private root's trie nodes failed for a block that changed
\* both ledgers
C6_Witness ==
    /\ CommitReturned
    /\ ret.failAt = 4
    /\ ret.appHash # CommitRoot(publicState)
    /\ ret.privHash # CommitRoot(privateState)

\* OnExecute of block b on a freshly started node whose confirmed ledgers have
\* the account tables pubAccts and privAccts: the ExecuteResult and both roots
RECURSIVE RunBlock(_, _, _, _)
RunBlock(b, n, pubAccts, privAccts) ==
    IF n = 0
    THEN [pub |-> StateNew(RootOf(pubAccts)), priv |-> StateNew(RootOf(privAccts)),
          publicReceipts |-> <<>>, privateReceipts |-> <<>>,
          ValidTxs |-> <<>>, InvalidTxs |-> <<>>]
    ELSE LET a == RunBlock(b, n - 1, pubAccts, privAccts)
             x == IF b[n].sigOK
                  THEN execFunc(a.pub, a.priv, b[n], secChanHost)
                  ELSE [err |-> "invalid signature", pub |-> a.pub, priv |-> a.priv,
                        temPublicReceipt |-> <<>>, temPrivateReceipt |-> <<>>]
             e == endFunc(b[n], x, Snapshot(a.pub), Snapshot(a.priv), a)
         IN  [pub |-> e.pub, priv |-> e.priv,
              publicReceipts |-> e.publicReceipts,
              privateReceipts |-> e.privateReceipts,
              ValidTxs |-> e.ValidTxs, InvalidTxs |-> e.InvalidTxs]

\* what OnExecute and OnCommit of the block last executed return on a node that
\* starts from the confirmed roots the last OnCommit started from
FirstRun ==
    LET r == RunBlock(block, Len(block), ret.pre.lb.AppHash[2], ret.pre.lb.PrivHash[2])
    IN  [res |-> [ValidTxs |-> r.ValidTxs, InvalidTxs |-> r.InvalidTxs],
         appHash |-> CommitRoot(r.pub),
         privHash |-> CommitRoot(r.priv),
         ReceiptsHash |-> SaveReceipts({}, r.publicReceipts, r.privateReceipts).rHash]

\* C9: OnExecute then OnCommit of a block from given confirmed roots yields the
\* ValidTxs/InvalidTxs, the public root, the private root and the receipts root
\* that any other run of the same block from the same roots yields, whatever
\* the order in which the sender recoveries completed.
C9_BlockOutcomeDeterministic ==
    (CommitReturned /\ ret.err = NoError /\ ~ret.saveFailed) =>
        /\ res = FirstRun.res
        /\ ret.appHash = FirstRun.appHash
        /\ ret.privHash = FirstRun.privHash
        /\ ret.ReceiptsHash = FirstRun.ReceiptsHash

\* the part of C9 that the accumulators do not enter: verdicts and state roots
C9_VerdictsAndRootsDeterministic ==
    (CommitReturned /\ ret.err = NoError) =>
        /\ res = FirstRun.res
        /\ ret.appHash = FirstRun.appHash
        /\ ret.privHash = FirstRun.privHash

\* CheckTx has returned on a decoded transaction; the confirmed handle of its
\* target ledger was installed when CheckTx read it
CheckTxJudged ==
    /\ chk.pc = "done"
    /\ chk.bs # Malformed
    /\ chk.judgeState # NilState

\* a step of CheckTx leaves the confirmed handles and LastBlockInfo alone
CheckTxKeepsConfirmed == [][chk' # chk => UNCHANGED confirmedVars]_vars

C8_ProtectedTxRejectedWithoutChannel ==
    /\ []((chk.pc # "idle" /\ chk.bs # Malformed /\ chk.bs.protected /\ ~secChanHost) =>
            /\ chk.pc = "done"
            /\ chk.err # NoError
            /\ chk.bytes = <<>>
            /\ ~chk.sent
            /\ ~chk.locked)
    /\ [][chk' # chk =>
            UNCHANGED <<secChanHost, genesis, phase, confirmedVars, currentVars, receiptVars,
                        execVars, ret, faults>>]_vars

\* a protected transaction that the nonce and funds checks would have let
\* through was rejected for the missing secure channel
C8_Witness ==
    /\ chk.pc = "done"
    /\ chk.bs # Malformed
    /\ chk.bs.protected
    /\ ~secChanHost
    /\ chk.err = "node private tx unsupported"
    /\ CheckVerdict(chk.judgeState, chk.bs) = NoError

\* the number of transactions of sender a among the raw transactions txs
RECURSIVE SentBy(_, _)
SentBy(txs, a) ==
    IF txs = <<>> THEN 0
    ELSE (IF Sender(Head(txs)) = a THEN 1 ELSE 0) + SentBy(Tail(txs), a)

\* C11: after OnCommit of a block succeeded, a nonce query for any address
\* returns the nonce the confirmed public handle held before the commit plus
\* the number of that sender's transactions reported valid in the block.
C11_NonceQueryAfterCommit ==
    (CommitReturned /\ ret.err = NoError /\ ret.pre.pub # NilState) =>
        \A a \in Accounts :
            LET o == queryNonce(a, App)
            IN  /\ o.res.Code = "OK"
                /\ DecodeNonce(o.res.Data) =
                       GetNonce(ret.pre.pub, a) + SentBy(res.ValidTxs, a)

\* the same, for commits that no store failure preceded
C11_NonceQueryWithoutFaults ==
    (CommitReturned /\ ret.err = NoError /\ faults = 0) =>
        \A a \in Accounts :
            DecodeNonce(queryNonce(a, App).res.Data) =
                GetNonce(ret.pre.pub, a) + SentBy(res.ValidTxs, a)

\* C12: when a block holds the same transaction twice and the first is
\* reported valid, the second is reported invalid with a nonce error: the pair
\* adds one entry to ValidTxs and one receipt to the accumulators.
C12_DuplicateTxSettledOnce ==
    (/\ phase = "executed"
     /\ Len(block) = 2
     /\ block[1] = block[2]
     /\ res.ValidTxs # <<>>) =>
        /\ res.ValidTxs = <<block[1]>>
        /\ Len(res.InvalidTxs) = 1
        /\ res.InvalidTxs[1].Bytes = block[2]
        /\ res.InvalidTxs[1].Error = "nonce mismatch"
        /\ Len(publicReceipts) + Len(privateReceipts) =
               Len(startReceipts.publicReceipts) + Len(startReceipts.privateReceipts) + 1

\* the same, for duplicates that are dispatched to the EVM
C12_ExecutedDuplicateSettledOnce ==
    (/\ phase = "executed"
     /\ Len(block) = 2
     /\ block[1] = block[2]
     /\ ~(block[1].protected /\ ~secChanHost)
     /\ res.ValidTxs # <<>>) =>
        /\ res.ValidTxs = <<block[1]>>
        /\ Len(res.InvalidTxs) = 1
        /\ res.InvalidTxs[1].Error = "nonce mismatch"
        /\ Len(publicReceipts) + Len(privateReceipts) =
               Len(startReceipts.publicReceipts) + Len(startReceipts.privateReceipts) + 1

\* a Query call has returned
QueryReturned == qres.op = "Query"

\* C13: every call of Query, whatever the byte string and whatever the state
\* of the app, returns a Result (OK or a typed error) and never panics.
C13_QueryNeverAborts ==
    QueryReturned => qres.res.Code \in {"OK", "BaseInvalidInput", "InternalError"}

\* the same, for the queries that carry an action tag, name a recipient and do
\* not call a contract at the current height
C13_TaggedQueriesReturn ==
    (/\ QueryReturned
     /\ qres.query # EmptyQuery
     /\ qres.query.action \notin {"Contract", "ContractByHeight", "Existence"}) =>
        qres.res.Code \in {"OK", "BaseInvalidInput", "InternalError"}

\* C14: the handle whose nonce and balance CheckTx reads under the state lock
\* is the confirmed handle of the target ledger installed at that moment.
C14_CheckTxReadsInstalledHandle ==
    (chk.pc = "done" /\ chk.locked) => chk.judgeState = chk.confirmed

\* the receipt r is served by a receipt query for its transaction hash
ReceiptServed(r) ==
    LET o == queryReceipt(r.TxHash, App)
    IN  o.res.Code = "OK" /\ o.res.Data = EncodeReceipt(r)

\* C15: when OnCommit returns without error, the receipts were persisted: every
\* receipt accumulated for the block is served by a receipt query for its
\* transaction hash, and ReceiptsHash is the root over the block's receipts.
C15_SuccessfulCommitPersistedReceipts ==
    (CommitReturned /\ ret.err = NoError) =>
        /\ ~ret.saveFailed
        /\ \A i \in 1..Len(ret.publicReceipts) : ReceiptServed(ret.publicReceipts[i])
        /\ \A i \in 1..Len(ret.privateReceipts) : ReceiptServed(ret.privateReceipts[i])
        /\ ret.ReceiptsHash =
               SimpleHashFromHashes(EncodeAll(ret.publicReceipts \o ret.privateReceipts))

\* the same, for commits whose receipt batch was written: the receipts are
\* served, and the root is the one over the public receipts
C15_WrittenBatchIsServed ==
    (CommitReturned /\ ret.err = NoError /\ ~ret.saveFailed) =>
        /\ \A i \in 1..Len(ret.publicReceipts) : ReceiptServed(ret.publicReceipts[i])
        /\ \A i \in 1..Len(ret.privateReceipts) : ReceiptServed(ret.privateReceipts[i])
        /\ ret.ReceiptsHash = SimpleHashFromHashes(EncodeAll(ret.publicReceipts))

ReceiptIsPublic(tx) == ~(tx.protected /\ secChanHost)
ReceiptIsPrivate(tx) == tx.protected /\ secChanHost

\* the transaction hashes of a list of transactions / of a list of receipts
HashesOfTxs(txs) == [i \in 1..Len(txs) |-> TxHash(txs[i])]
HashesOfReceipts(rs) == [i \in 1..Len(rs) |-> rs[i].TxHash]

\* C17: during and after OnExecute of a block that started with empty
\* accumulators, the public accumulator holds, in block order, one receipt for
\* each valid unprotected or placeholder transaction, the private accumulator
\* one for each valid protected transaction executed with a secure channel,
\* and neither holds a receipt of an invalid transaction.
C17_OneReceiptPerValidTx ==
    (phase \in {"executing", "executed"} /\ startReceipts = NoReceipts) =>
        /\ HashesOfReceipts(publicReceipts) =
               HashesOfTxs(SelectSeq(res.ValidTxs, ReceiptIsPublic))
        /\ HashesOfReceipts(privateReceipts) =
               HashesOfTxs(SelectSeq(res.ValidTxs, ReceiptIsPrivate))
        /\ Len(publicReceipts) + Len(privateReceipts) = Len(res.ValidTxs)

\* a block of two different valid public transactions was executed from empty
\* accumulators
C17_Witness ==
    /\ phase = "executed"
    /\ startReceipts = NoReceipts
    /\ Len(res.ValidTxs) = 2
    /\ res.ValidTxs[1] # res.ValidTxs[2]
    /\ Len(publicReceipts) = 2

\* the step is one of OnCommit or Start
CommitOrStartStep ==
    \/ phase = "new"
    \/ phase = "executed" /\ phase' \in {"idle", "commitFailed"}

\* C18: every step of OnExecute, CheckTx and Query leaves the confirmed public
\* handle, the confirmed private handle and the persisted LastBlockInfo
\* unchanged; only OnCommit and Start replace them.
C18_OnlyCommitReplacesConfirmed ==
    [][~CommitOrStartStep => UNCHANGED confirmedVars]_vars

\* a contract call at the current height was answered while a block was being
\* executed
C18_Witness ==
    /\ QueryReturned
    /\ qres.phase = "executing"
    /\ qres.query # EmptyQuery
    /\ qres.query.action = "Contract"
    /\ qres.res.Code = "OK"
    /\ step.idx # 0

\* the Query call was a contract call at the current height whose payload
\* decodes to a signed transaction
CurrentHeightCall ==
    /\ QueryReturned
    /\ qres.query # EmptyQuery
    /\ \/ qres.query.action = "Contract"
       \/ qres.query.action = "ContractByHeight" /\ ~qres.query.short /\ qres.query.h = 0
    /\ qres.query.load # Malformed
    /\ qres.query.load.sigOK

\* C19: a contract call at the current height made while no block is in
\* progress is answered, and the state it reads equals the confirmed state of
\* the ledger selected by the protected flag.
C19_IdleCallReadsConfirmedState ==
    (CurrentHeightCall /\ qres.phase = "idle") =>
        /\ qres.res.Code = "OK"
        /\ qres.read = qres.confirmed.accts

\* the same, for the calls that are answered
C19_AnsweredIdleCallReadsConfirmedState ==
    (CurrentHeightCall /\ qres.phase = "idle" /\ qres.res.Code = "OK") =>
        qres.read = qres.confirmed.accts

\* a Query step leaves the in-progress handles, the confirmed handles and the
\* receipt accumulators unchanged
C19_QueryLeavesLedgersAlone ==
    [][qres' # qres =>
         UNCHANGED <<confirmedVars, currentVars, receiptVars>>]_vars

\* C20: OnExecute finds both receipt accumulators empty.
C20_ExecuteStartsWithEmptyAccumulators ==
    phase \in {"executing", "executed"} => startReceipts = NoReceipts

\* the same, when no OnCommit has failed before
C20_EmptyAccumulatorsWithoutFailedCommit ==
    (phase \in {"executing", "executed"} /\ faults = 0) => startReceipts = NoReceipts

\* the fold of RunBlock on a validator whose secure channel is configured
\* (secChan = TRUE) or not
RECURSIVE RunBlockOn(_, _, _, _, _)
RunBlockOn(b, n, pubAccts, privAccts, secChan) ==
    IF n = 0
    THEN [pub |-> StateNew(RootOf(pubAccts)), priv |-> StateNew(RootOf(privAccts)),
          publicReceipts |-> <<>>, privateReceipts |-> <<>>,
          ValidTxs |-> <<>>, InvalidTxs |-> <<>>]
    ELSE LET a == RunBlockOn(b, n - 1, pubAccts, privAccts, secChan)
             x == IF b[n].sigOK
                  THEN execFunc(a.pub, a.priv, b[n], secChan)
                  ELSE [err |-> "invalid signature", pub |-> a.pub, priv |-> a.priv,
                        temPublicReceipt |-> <<>>, temPrivateReceipt |-> <<>>]
             e == endFunc(b[n], x, Snapshot(a.pub), Snapshot(a.priv), a)
         IN  [pub |-> e.pub, priv |-> e.priv,
              publicReceipts |-> e.publicReceipts,
              privateReceipts |-> e.privateReceipts,
              ValidTxs |-> e.ValidTxs, InvalidTxs |-> e.InvalidTxs]

\* what OnExecute and OnCommit of the block last executed return on a validator
\* with the other secure-channel configuration that starts from the same
\* confirmed roots
PeerRun ==
    LET r == RunBlockOn(block, Len(block), ret.pre.lb.AppHash[2],
                        ret.pre.lb.PrivHash[2], ~secChanHost)
    IN  [res |-> [ValidTxs |-> r.ValidTxs, InvalidTxs |-> r.InvalidTxs],
         appHash |-> CommitRoot(r.pub),
         ReceiptsHash |-> SaveReceipts({}, r.publicReceipts, r.privateReceipts).rHash]

\* the block last executed holds a protected transaction
HasProtectedTx == \E i \in 1..Len(block) : block[i].protected

\* C21: a validator with a secure channel and one without, running the same
\* block from the same confirmed roots, report the same ValidTxs/InvalidTxs and
\* return the same public root and the same receipts root from OnCommit.
C21_SameOutcomeWithAndWithoutChannel ==
    (CommitReturned /\ ret.err = NoError /\ faults = 0) =>
        /\ res = PeerRun.res
        /\ ret.appHash = PeerRun.appHash
        /\ ret.ReceiptsHash = PeerRun.ReceiptsHash

\* the same, for blocks without protected transactions
C21_SameOutcomeForPublicBlocks ==
    (CommitReturned /\ ret.err = NoError /\ faults = 0 /\ ~HasProtectedTx) =>
        /\ res = PeerRun.res
        /\ ret.appHash = PeerRun.appHash
        /\ ret.ReceiptsHash = PeerRun.ReceiptsHash

\* the step keeps a persisted LastBlockInfo and does not lower its height
HeightKept ==
    lastBlock # NoBlock =>
        lastBlock' # NoBlock /\ lastBlock'.Height >= lastBlock.Height

\* C22: over any sequence of Start, OnExecute and OnCommit calls, across
\* restarts of the node, the height of the persisted LastBlockInfo never
\* decreases: Start does not overwrite the record of a committed block.
C22_PersistedHeightNeverDecreases == [][HeightKept]_vars

\* the same, on a node with the funded genesis allocation whose loads of
\* LastBlockInfo succeed
C22_HeightKeptOnFundedNodeWithoutLoadFailure ==
    [][(genesis = GenesisAccounts /\ faults' = faults) => HeightKept]_vars


====
